---- MODULE Spec2Model ----
(***************************************************************************)
(* PlanetScaleCheck (src/planetscale.py): one run of check(instance).      *)
(* The main thread validates the instance, queries the discovery API,      *)
(* builds one scrape config per discovered target and hands the configs    *)
(* to a ThreadPoolExecutor whose workers run _scrape_single_target.        *)
(*                                                                         *)
(* Python strings are sequences of one-character strings, so that the      *)
(* string operations of the code (startswith, rstrip, replace, urlencode)  *)
(* are computed rather than assumed.  An optional value (dict.get without  *)
(* a hit, None) is a sequence of length 0 or 1.                            *)
(***************************************************************************)
EXTENDS Integers, Sequences, FiniteSets, Bags, TLC

\* ------------------------------------------------------------------ bounds
MaxTargets == 2
MaxConc == 2
MaxLabels == 2

\* ------------------------------------------------------- program constants
DefaultMaxWorkers == 5
DefaultNamespace == "planetscale"

\* ---------------------------------------------------------------- options
None == << >>
Some(v) == << v >>
IsNone(o) == Len(o) = 0
Val(o) == o[1]

\* dict.get(key, default)
GetOr(o, default) == IF IsNone(o) THEN default ELSE Val(o)

\* ---------------------------------------------------------------- strings
StartsWith(s, p) == Len(s) >= Len(p) /\ SubSeq(s, 1, Len(p)) = p

RECURSIVE RStrip(_, _)
RStrip(s, c) ==
    IF Len(s) > 0 /\ s[Len(s)] = c THEN RStrip(SubSeq(s, 1, Len(s) - 1), c) ELSE s

\* str.replace(old, new): every non-overlapping occurrence, left to right
RECURSIVE Replace(_, _, _)
Replace(s, old, new) ==
    IF Len(s) = 0 THEN << >>
    ELSE IF StartsWith(s, old)
         THEN new \o Replace(SubSeq(s, Len(old) + 1, Len(s)), old, new)
         ELSE << s[1] >> \o Replace(Tail(s), old, new)

HttpScheme == << "h", "t", "t", "p", ":", "/", "/" >>
HttpsScheme == << "h", "t", "t", "p", "s", ":", "/", "/" >>
MetricsPathKey ==
    << "_", "_", "m", "e", "t", "r", "i", "c", "s", "_", "p", "a", "t", "h", "_", "_" >>
DefaultMetricsPath == << "/", "m", "e", "t", "r", "i", "c", "s" >>
ParamPrefix == << "_", "_", "p", "a", "r", "a", "m", "_" >>
ReservedPrefix == << "_", "_" >>
OrgTagPrefix ==
    << "p", "l", "a", "n", "e", "t", "s", "c", "a", "l", "e", "_", "o", "r", "g", ":" >>

\* urllib.parse.quote_plus on the characters the model uses
QuoteChar(c) ==
    CASE c = " " -> << "+" >>
      [] c = "/" -> << "%", "2", "F" >>
      [] c = ":" -> << "%", "3", "A" >>
      [] c = "&" -> << "%", "2", "6" >>
      [] c = "=" -> << "%", "3", "D" >>
      [] c = "?" -> << "%", "3", "F" >>
      [] OTHER -> << c >>

RECURSIVE QuotePlus(_)
QuotePlus(s) == IF Len(s) = 0 THEN << >> ELSE QuoteChar(s[1]) \o QuotePlus(Tail(s))

\* ------------------------------------------------------------ dictionaries
\* A dict is a sequence of <<key, value>> pairs with distinct keys, in
\* insertion order.
DictHas(d, k) == \E i \in 1..Len(d) : d[i][1] = k

DictGet(d, k) ==
    IF DictHas(d, k) THEN Some(d[CHOOSE i \in 1..Len(d) : d[i][1] = k][2]) ELSE None

\* d[k] = v: an existing key keeps its position and takes the new value
DictSet(d, k, v) ==
    IF DictHas(d, k)
    THEN [i \in 1..Len(d) |-> IF d[i][1] = k THEN << k, v >> ELSE d[i]]
    ELSE Append(d, << k, v >>)

\* requests.compat.urlencode(dict)
RECURSIVE UrlEncode(_)
UrlEncode(d) ==
    IF Len(d) = 0 THEN << >>
    ELSE QuotePlus(d[1][1]) \o << "=" >> \o QuotePlus(d[1][2])
         \o (IF Len(d) > 1 THEN << "&" >> \o UrlEncode(Tail(d)) ELSE << >>)

\* ------------------------------------------------- building a scrape config
\* A discovered target: isdict is FALSE for an element of the response that
\* is not a JSON object; targets is None when the key is missing.
Target(isdict, targets, labels) ==
    [isdict |-> isdict, targets |-> targets, labels |-> labels]

\* not target_config.get("targets")
SkipsTarget(t) == IsNone(t.targets) \/ Len(Val(t.targets)) = 0

\* {key.replace("__param_", ""): value for key, value in labels.items()
\*  if key.startswith("__param_")}
RECURSIVE UrlParams(_)
UrlParams(labels) ==
    IF Len(labels) = 0 THEN << >>
    ELSE LET rest == UrlParams(SubSeq(labels, 1, Len(labels) - 1))
             kv == labels[Len(labels)]
         IN IF StartsWith(kv[1], ParamPrefix)
            THEN DictSet(rest, Replace(kv[1], ParamPrefix, << >>), kv[2])
            ELSE rest

BaseTarget(t) ==
    LET first == Val(t.targets)[1]
    IN IF StartsWith(first, HttpScheme) \/ StartsWith(first, HttpsScheme)
       THEN first ELSE HttpsScheme \o first

MetricsPath(t) ==
    LET p == GetOr(DictGet(t.labels, MetricsPathKey), DefaultMetricsPath)
    IN IF StartsWith(p, << "/" >>) THEN p ELSE << "/" >> \o p

\* the address used without rstrip('/')
FinalUrl_NoStrip(t) ==
    LET q == UrlEncode(UrlParams(t.labels))
        u == BaseTarget(t) \o MetricsPath(t)
    IN IF Len(q) > 0 THEN u \o << "?" >> \o q ELSE u

FinalUrl(t) ==
    LET q == UrlEncode(UrlParams(t.labels))
        u == RStrip(BaseTarget(t), "/") \o MetricsPath(t)
    IN IF Len(q) > 0 THEN u \o << "?" >> \o q ELSE u

\* not key.startswith("__")
NotReserved(kv) == ~StartsWith(kv[1], ReservedPrefix)

\* f"{key}:{value}" for every label whose key does not start with "__", in
\* the order of the labels
LabelTags(labels) ==
    LET sel == SelectSeq(labels, NotReserved)
    IN [i \in 1..Len(sel) |-> sel[i][1] \o << ":" >> \o sel[i][2]]

\* dynamic_tags: a copy of the instance's tag list with the label tags
\* appended
DynamicTags(inst, t) == GetOr(inst.tags, << >>) \o LabelTags(t.labels)

SeqRange(s) == { s[i] : i \in 1..Len(s) }

\* A list of tags whose order carries no meaning is a bag.
BagOfSeq(s) == [x \in SeqRange(s) |-> Cardinality({ i \in 1..Len(s) : s[i] = x })]

\* the list kept as it is, without set()
Dedup_Keep(s) == BagOfSeq(s)

\* list(set(dynamic_tags))
Dedup(s) == SetToBag(SeqRange(s))

\* the namespace taken from the target instead of the instance
BuildConfig_NsPerTarget(inst, t) ==
    [ namespace |-> IF Len(t.labels) > 1 THEN "by-target" ELSE DefaultNamespace,
      tags |-> Dedup(DynamicTags(inst, t)),
      openmetrics_endpoint |-> FinalUrl(t),
      tag_by_endpoint |-> FALSE ]

\* The dynamic_instance of one target.  The pass-through scraper options
\* (metrics, label_joins, ssl_*, timeout, ...) are copies of instance values
\* that nothing in the check reads again; they are not carried.
BuildConfig(inst, t) ==
    [ namespace |-> GetOr(inst.namespace, DefaultNamespace),
      tags |-> Dedup(DynamicTags(inst, t)),
      openmetrics_endpoint |-> FinalUrl(t),
      tag_by_endpoint |-> FALSE ]

\* ------------------------------------------------------------------- state
VARIABLES
    instance,        \* the instance dict handed to check()
    pc,              \* position of the main thread
    exc,             \* the exception that escaped check(), "none" if none
    net_calls,       \* number of requests.get calls issued
    response,        \* how the discovery request ended, "none" before it
    targets,         \* the decoded discovery response
    idx,             \* position of the for loop over targets (1-based)
    scrape_configs,  \* the list scrape_configs
    max_workers,     \* size of the ThreadPoolExecutor, 0 before it exists
    futures,         \* the list futures: one record per submitted task
    work_queue,      \* the executor's queue of submitted, unstarted tasks
    num_threads,     \* worker threads the executor has started
    idle_sem,        \* the executor's idle semaphore
    polling,         \* workers about to take the next work item
    blocked,         \* workers blocked on the empty queue
    NAMESPACE,       \* self.__NAMESPACE__
    ns_writer,       \* the task that wrote self.__NAMESPACE__ last, 0 if none
    signals          \* bag of the service checks emitted

vars ==
    << instance, pc, exc, net_calls, response, targets, idx, scrape_configs, max_workers,
       futures, work_queue, num_threads, idle_sem, polling, blocked, NAMESPACE,
       ns_writer, signals >>

mainVars == << pc, exc, net_calls, response, targets, idx, scrape_configs, max_workers >>
poolVars == << work_queue, num_threads, idle_sem, polling, blocked >>

\* ------------------------------------------------------------------ inputs
Org == << "o" >>
Credentials == { None, Some(<< >>), Some(Org) }
BaseTags == << << "t", ":", "1" >> >>

Instances ==
    [ planetscale_organization : Credentials,
      ps_service_token_id : Credentials,
      ps_service_token_secret : Credentials,
      namespace : { Some(DefaultNamespace) },
      tags : { None, Some(BaseTags) },
      max_concurrent_requests : { None } \cup { Some(k) : k \in 0..MaxConc } ]

\* {"targets": ["a"], "labels": {"e": "p"}}
TgtA == Target(TRUE, Some(<< << "a" >> >>), << << << "e" >>, << "p" >> >> >>)
\* {"targets": ["b/", "c"], "labels": {"__metrics_path__": "s", "r": "u"}}
TgtB ==
    Target(TRUE, Some(<< << "b", "/" >>, << "c" >> >>),
           << << MetricsPathKey, << "s" >> >>, << << "r" >>, << "u" >> >> >>)
\* {"targets": [], "labels": {"x": "y"}}
TgtEmpty == Target(TRUE, Some(<< >>), << << << "x" >>, << "y" >> >> >>)
\* {"labels": {"x": "y"}}
TgtMissing == Target(TRUE, None, << << << "x" >>, << "y" >> >> >>)
\* an element that is not a JSON object, such as "x"; also what iterating
\* over a response that is a JSON object or string yields
TgtNotDict == Target(FALSE, None, << >>)

Descriptors == { TgtA, TgtB, TgtEmpty, TgtMissing, TgtNotDict }

Bodies == UNION { [1..n -> Descriptors] : n \in 0..MaxTargets }

\* Inputs of the config builder alone: label sets over reserved, parameter
\* and plain keys, addresses with and without scheme and trailing slashes,
\* tag lists with a repeated tag and with a tag that a label also yields.
LabelKeys ==
    { << "r" >>, << "_", "_", "x" >>, MetricsPathKey, ParamPrefix \o << "a" >>,
      ParamPrefix \o ParamPrefix \o << "a" >>, ParamPrefix \o << "b" >> }

LabelValues == { << "s" >>, << "/", "s" >>, << "/", "/", "s" >> }

LabelSets ==
    UNION { { l \in [1..n -> LabelKeys \X LabelValues] :
                \A i, j \in 1..n : i # j => l[i][1] # l[j][1] } : n \in 0..MaxLabels }

AddressLists ==
    { << << "a" >> >>,
      << << "b", "/" >>, << "z" >> >>,
      << HttpScheme \o << "c" >> >>,
      << HttpsScheme \o << "d", "/", "/" >>, << "z" >> >> }

BuildTargets == { Target(TRUE, Some(a), l) : a \in AddressLists, l \in LabelSets }

BuildInstances ==
    [ planetscale_organization : { Some(Org) },
      ps_service_token_id : { Some(Org) },
      ps_service_token_secret : { Some(Org) },
      namespace : { Some(DefaultNamespace) },
      tags : { None, Some(BaseTags), Some(BaseTags \o BaseTags),
               Some(<< << "r", ":", "s" >> >>) },
      max_concurrent_requests : { None } ]

\* What requests.get / raise_for_status / response.json / len(targets) do:
\* "unsized" is a body that decodes to a value without a length (null, a
\* number, true), on which len(targets) raises TypeError.
FailureKinds == { "timeout", "transport", "http", "decode", "unsized" }

\* the RequestException clause placed before the Timeout clause
Handlers_Swapped(kind) ==
    CASE kind \in { "timeout", "transport", "http" } -> { "Error connecting" }
      [] kind = "decode" -> { "Error connecting", "Unexpected error" }
      [] kind = "unsized" -> { "Unexpected error" }

\* The except clause that catches each failure.  A body that is not JSON
\* raises requests.exceptions.JSONDecodeError (a RequestException) or, with
\* an older requests, a plain ValueError.
Handlers(kind) ==
    CASE kind = "timeout" -> { "Timeout connecting" }
      [] kind \in { "transport", "http" } -> { "Error connecting" }
      [] kind = "decode" -> { "Error connecting", "Unexpected error" }
      [] kind = "unsized" -> { "Unexpected error" }

ApiCheck == "planetscale.api.can_connect"
TargetCheck == "planetscale.target.can_scrape"

\* self.service_check(name, status, message=..., tags=...)
ServiceCheck(name, status, message, tags) ==
    signals (+) SetToBag({ [ name |-> name, status |-> status,
                             message |-> message, tags |-> tags ] })

OrgTags(org_id) == BagOfSeq(<< OrgTagPrefix \o org_id >>)

\* a test for None instead of a truth test
Falsy_NoneOnly(o) == IsNone(o)

\* not value, for instance.get(key)
Falsy(o) == IsNone(o) \/ Len(Val(o)) = 0

\* -------------------------------------------------------------------- init
Init ==
    /\ instance \in Instances
    /\ pc = "start"
    /\ exc = "none"
    /\ net_calls = 0
    /\ response = "none"
    /\ targets = << >>
    /\ idx = 1
    /\ scrape_configs = << >>
    /\ max_workers = 0
    /\ futures = << >>
    /\ work_queue = << >>
    /\ num_threads = 0
    /\ idle_sem = 0
    /\ polling = 0
    /\ blocked = 0
    /\ NAMESPACE = ""
    /\ ns_writer = 0
    /\ signals = EmptyBag

\* The state in which scrape_planetscale_targets starts on a response of one
\* target: the request is done and the OK service check is out.
BuildInit ==
    /\ instance \in BuildInstances
    /\ pc = "build"
    /\ exc = "none"
    /\ net_calls = 1
    /\ response = "ok"
    /\ targets \in { << t >> : t \in BuildTargets }
    /\ idx = 1
    /\ scrape_configs = << >>
    /\ max_workers = 0
    /\ futures = << >>
    /\ work_queue = << >>
    /\ num_threads = 0
    /\ idle_sem = 0
    /\ polling = 0
    /\ blocked = 0
    /\ NAMESPACE = ""
    /\ ns_writer = 0
    /\ signals = SetToBag({ [ name |-> ApiCheck, status |-> "OK", message |-> None,
                              tags |-> OrgTags(Org) ] })

\* ------------------------------------------------------------- main thread
Raise(e) == pc' = "raised" /\ exc' = e

\* check, lines 30-45
Validate ==
    /\ pc = "start"
    /\ IF \/ Falsy(instance.planetscale_organization)
          \/ Falsy(instance.ps_service_token_id)
          \/ Falsy(instance.ps_service_token_secret)
       THEN Raise("ConfigurationError")
       ELSE pc' = "request" /\ exc' = exc
    /\ UNCHANGED << instance, net_calls, response, targets, idx, scrape_configs, max_workers,
                    futures, poolVars, NAMESPACE, ns_writer, signals >>

\* check, lines 58-93: the request failed
DiscoverFails(kind, message) ==
    /\ pc = "request"
    /\ net_calls' = net_calls + 1
    /\ response' = kind
    /\ signals' = ServiceCheck(ApiCheck, "CRITICAL", Some(message),
                               OrgTags(Val(instance.planetscale_organization)))
    /\ pc' = "returned"
    /\ UNCHANGED << instance, exc, targets, idx, scrape_configs, max_workers,
                    futures, poolVars, NAMESPACE, ns_writer >>

\* the OK service check left out
DiscoverOk_NoSignal(body) ==
    /\ pc = "request"
    /\ net_calls' = net_calls + 1
    /\ response' = "ok"
    /\ targets' = body
    /\ pc' = "build"
    /\ UNCHANGED << instance, exc, idx, scrape_configs, max_workers,
                    futures, poolVars, NAMESPACE, ns_writer, signals >>

\* check, lines 58-65 and 96-103: the request succeeded
DiscoverOk(body) ==
    /\ pc = "request"
    /\ net_calls' = net_calls + 1
    /\ response' = "ok"
    /\ targets' = body
    /\ signals' = ServiceCheck(ApiCheck, "OK", None,
                               OrgTags(Val(instance.planetscale_organization)))
    /\ pc' = "build"
    /\ UNCHANGED << instance, exc, idx, scrape_configs, max_workers,
                    futures, poolVars, NAMESPACE, ns_writer >>

\* insert(0, ...) instead of append
BuildNext_Prepend ==
    /\ pc = "build"
    /\ idx <= Len(targets)
    /\ LET t == targets[idx]
       IN IF ~t.isdict
          THEN /\ Raise("AttributeError")
               /\ UNCHANGED << idx, scrape_configs >>
          ELSE /\ idx' = idx + 1
               /\ scrape_configs' =
                     IF SkipsTarget(t) THEN scrape_configs
                     ELSE << BuildConfig(instance, t) >> \o scrape_configs
               /\ UNCHANGED << pc, exc >>
    /\ UNCHANGED << instance, net_calls, response, targets, max_workers,
                    futures, poolVars, NAMESPACE, ns_writer, signals >>

\* the instance's tag list used without list(): the appends reach the instance
BuildNext_Aliased ==
    /\ pc = "build"
    /\ idx <= Len(targets)
    /\ LET t == targets[idx]
       IN IF ~t.isdict
          THEN /\ Raise("AttributeError")
               /\ UNCHANGED << idx, scrape_configs, instance >>
          ELSE /\ idx' = idx + 1
               /\ scrape_configs' =
                     IF SkipsTarget(t) THEN scrape_configs
                     ELSE Append(scrape_configs, BuildConfig(instance, t))
               /\ instance' =
                     IF SkipsTarget(t) \/ IsNone(instance.tags) THEN instance
                     ELSE [instance EXCEPT !.tags = Some(DynamicTags(instance, t))]
               /\ UNCHANGED << pc, exc >>
    /\ UNCHANGED << net_calls, response, targets, max_workers,
                    futures, poolVars, NAMESPACE, ns_writer, signals >>

\* break instead of continue on a target without endpoints
BuildNext_Break ==
    /\ pc = "build"
    /\ idx <= Len(targets)
    /\ LET t == targets[idx]
       IN IF ~t.isdict
          THEN /\ Raise("AttributeError")
               /\ UNCHANGED << idx, scrape_configs >>
          ELSE /\ idx' = IF SkipsTarget(t) THEN Len(targets) + 1 ELSE idx + 1
               /\ scrape_configs' =
                     IF SkipsTarget(t) THEN scrape_configs
                     ELSE Append(scrape_configs, BuildConfig(instance, t))
               /\ UNCHANGED << pc, exc >>
    /\ UNCHANGED << instance, net_calls, response, targets, max_workers,
                    futures, poolVars, NAMESPACE, ns_writer, signals >>

\* scrape_planetscale_targets, lines 113-203: one iteration of the loop
BuildNext ==
    /\ pc = "build"
    /\ idx <= Len(targets)
    /\ LET t == targets[idx]
       IN IF ~t.isdict
          THEN /\ Raise("AttributeError")
               /\ UNCHANGED << idx, scrape_configs >>
          ELSE /\ idx' = idx + 1
               /\ scrape_configs' =
                     IF SkipsTarget(t) THEN scrape_configs
                     ELSE Append(scrape_configs, BuildConfig(instance, t))
               /\ UNCHANGED << pc, exc >>
    /\ UNCHANGED << instance, net_calls, response, targets, max_workers,
                    futures, poolVars, NAMESPACE, ns_writer, signals >>

\* the option is read under a key the instance never holds
MaxWorkersOf_Ignored(inst) == DefaultMaxWorkers

\* line 107: instance.get("max_concurrent_requests", 5)
MaxWorkersOf(inst) == GetOr(inst.max_concurrent_requests, DefaultMaxWorkers)

\* line 206: ThreadPoolExecutor(max_workers=...) raises ValueError
\* unless max_workers is positive
CreatePool ==
    /\ pc = "build"
    /\ idx > Len(targets)
    /\ LET mw == MaxWorkersOf(instance)
       IN IF mw <= 0
          THEN Raise("ValueError") /\ UNCHANGED max_workers
          ELSE max_workers' = mw /\ pc' = "submit" /\ exc' = exc
    /\ UNCHANGED << instance, net_calls, response, targets, idx, scrape_configs,
                    futures, poolVars, NAMESPACE, ns_writer, signals >>

\* the comprehension stops one config short
AllSubmitted_OffByOne == Len(futures) + 1 >= Len(scrape_configs)

\* line 207: the comprehension has submitted every config
AllSubmitted == Len(futures) = Len(scrape_configs)

AllDone == \A j \in 1..Len(futures) : futures[j].state = "finished"

NewFuture == [ state |-> "pending", runs |-> 0, error |-> None, emitted |-> 0 ]

\* line 207: executor.submit for the next config.  The executor queues the
\* work item and starts a thread unless one is idle or max_workers run.
Submit ==
    /\ pc = "submit"
    /\ ~AllSubmitted
    /\ futures' = Append(futures, NewFuture)
    /\ work_queue' = Append(work_queue, Len(futures) + 1)
    /\ IF idle_sem > 0
       THEN idle_sem' = idle_sem - 1 /\ UNCHANGED << num_threads, polling >>
       ELSE IF num_threads < max_workers
            THEN /\ num_threads' = num_threads + 1
                 /\ polling' = polling + 1
                 /\ UNCHANGED idle_sem
            ELSE UNCHANGED << idle_sem, num_threads, polling >>
    /\ UNCHANGED << instance, mainVars, blocked, NAMESPACE, ns_writer, signals >>

\* line 209: concurrent.futures.wait(futures) returns, and the with block
\* starts executor.shutdown(wait=True)
Wait ==
    /\ pc = "submit"
    /\ AllSubmitted
    /\ AllDone
    /\ pc' = "shutdown"
    /\ UNCHANGED << instance, exc, net_calls, response, targets, idx, scrape_configs,
                    max_workers, futures, poolVars, NAMESPACE, ns_writer, signals >>

\* shutdown joins every worker, then scrape_planetscale_targets returns
Return ==
    /\ pc = "shutdown"
    /\ polling = 0
    /\ blocked = 0
    /\ AllDone
    /\ Len(work_queue) = 0
    /\ pc' = "returned"
    /\ UNCHANGED << instance, exc, net_calls, response, targets, idx, scrape_configs,
                    max_workers, futures, poolVars, NAMESPACE, ns_writer, signals >>

\* ---------------------------------------------------------- worker threads
InFlightStates == { "ns", "create", "scrape", "except" }

InFlight == { j \in 1..Len(futures) : futures[j].state \in InFlightStates }

\* A worker takes the work item at the head of the queue and enters
\* _scrape_single_target with it.
StartHead ==
    /\ futures' = [futures EXCEPT ![Head(work_queue)].state = "ns",
                                  ![Head(work_queue)].runs = @ + 1]
    /\ work_queue' = Tail(work_queue)

\* The worker loop: work_queue.get_nowait(), and on an empty queue release
\* the idle semaphore and block in work_queue.get()
WorkerGet ==
    /\ polling > 0
    /\ pc # "shutdown" \/ Len(work_queue) > 0
    /\ polling' = polling - 1
    /\ IF Len(work_queue) > 0
       THEN StartHead /\ UNCHANGED << idle_sem, blocked >>
       ELSE /\ idle_sem' = idle_sem + 1
            /\ blocked' = blocked + 1
            /\ UNCHANGED << futures, work_queue >>
    /\ UNCHANGED << instance, mainVars, num_threads, NAMESPACE, ns_writer, signals >>

\* A blocked worker receives a work item
WorkerWake ==
    /\ blocked > 0
    /\ Len(work_queue) > 0
    /\ blocked' = blocked - 1
    /\ StartHead
    /\ UNCHANGED << instance, mainVars, num_threads, idle_sem, polling,
                    NAMESPACE, ns_writer, signals >>

\* shutdown: a worker that finds the queue drained and closed exits
WorkerExit ==
    /\ pc = "shutdown"
    /\ Len(work_queue) = 0
    /\ \/ polling > 0 /\ polling' = polling - 1 /\ UNCHANGED blocked
       \/ blocked > 0 /\ blocked' = blocked - 1 /\ UNCHANGED polling
    /\ UNCHANGED << instance, mainVars, futures, work_queue, num_threads,
                    idle_sem, NAMESPACE, ns_writer, signals >>

\* The task returns to the worker loop: the future is done
Finish(j, fut) ==
    /\ futures' = [futures EXCEPT ![j] = [fut EXCEPT !.state = "finished"]]
    /\ polling' = polling + 1

\* _scrape_single_target, line 214
TaskSetNamespace(j) ==
    /\ j \in 1..Len(futures)
    /\ futures[j].state = "ns"
    /\ NAMESPACE' = scrape_configs[j].namespace
    /\ ns_writer' = j
    /\ futures' = [futures EXCEPT ![j].state = "create"]
    /\ UNCHANGED << instance, mainVars, poolVars, signals >>

\* line 217: create_scraper returns a scraper or raises
TaskCreate(j, ok) ==
    /\ j \in 1..Len(futures)
    /\ futures[j].state = "create"
    /\ futures' = IF ok
                  THEN [futures EXCEPT ![j].state = "scrape"]
                  ELSE [futures EXCEPT ![j].state = "except",
                                       ![j].error = Some("create_scraper failed")]
    /\ UNCHANGED << instance, mainVars, poolVars, NAMESPACE, ns_writer, signals >>

\* an OK service check added on success
TaskScrape_EmitsOk(j, ok) ==
    /\ j \in 1..Len(futures)
    /\ futures[j].state = "scrape"
    /\ IF ok
       THEN /\ Finish(j, futures[j])
            /\ signals' = ServiceCheck(TargetCheck, "OK", None,
                                       scrape_configs[j].tags)
       ELSE /\ futures' = [futures EXCEPT ![j].state = "except",
                                          ![j].error = Some("scrape failed")]
            /\ UNCHANGED << polling, signals >>
    /\ UNCHANGED << instance, mainVars, work_queue, num_threads, idle_sem,
                    blocked, NAMESPACE, ns_writer >>

\* line 226: scraper.scrape() returns or raises
TaskScrape(j, ok) ==
    /\ j \in 1..Len(futures)
    /\ futures[j].state = "scrape"
    /\ IF ok
       THEN Finish(j, futures[j])
       ELSE /\ futures' = [futures EXCEPT ![j].state = "except",
                                          ![j].error = Some("scrape failed")]
            /\ UNCHANGED polling
    /\ UNCHANGED << instance, mainVars, work_queue, num_threads, idle_sem,
                    blocked, NAMESPACE, ns_writer, signals >>

\* the tags of the config the loop variable was left on
TaskExcept_LastTags(j) ==
    /\ j \in 1..Len(futures)
    /\ futures[j].state = "except"
    /\ signals' = ServiceCheck(TargetCheck, "CRITICAL", futures[j].error,
                               scrape_configs[Len(scrape_configs)].tags)
    /\ Finish(j, [futures[j] EXCEPT !.emitted = @ + 1])
    /\ UNCHANGED << instance, mainVars, work_queue, num_threads, idle_sem,
                    blocked, NAMESPACE, ns_writer >>

\* the exception re-raised out of the task: the worker never takes another
\* work item
TaskExcept_Escapes(j) ==
    /\ j \in 1..Len(futures)
    /\ futures[j].state = "except"
    /\ signals' = ServiceCheck(TargetCheck, "CRITICAL", futures[j].error,
                               scrape_configs[j].tags)
    /\ futures' = [futures EXCEPT ![j].state = "finished", ![j].emitted = @ + 1]
    /\ UNCHANGED << instance, mainVars, poolVars, NAMESPACE, ns_writer >>

\* lines 228-237: the except clause reports the failure
TaskExcept(j) ==
    /\ j \in 1..Len(futures)
    /\ futures[j].state = "except"
    /\ signals' = ServiceCheck(TargetCheck, "CRITICAL", futures[j].error,
                               scrape_configs[j].tags)
    /\ Finish(j, [futures[j] EXCEPT !.emitted = @ + 1])
    /\ UNCHANGED << instance, mainVars, work_queue, num_threads, idle_sem,
                    blocked, NAMESPACE, ns_writer >>

\* --------------------------------------------------------------------- spec
Tasks == 1..MaxTargets

Next ==
    \/ Validate
    \/ \E kind \in FailureKinds : \E m \in Handlers(kind) : DiscoverFails(kind, m)
    \/ \E body \in Bodies : DiscoverOk(body)
    \/ BuildNext
    \/ CreatePool
    \/ Submit
    \/ Wait
    \/ Return
    \/ WorkerGet
    \/ WorkerWake
    \/ WorkerExit
    \/ \E j \in Tasks : TaskSetNamespace(j)
    \/ \E j \in Tasks : \E ok \in BOOLEAN : TaskCreate(j, ok)
    \/ \E j \in Tasks : \E ok \in BOOLEAN : TaskScrape(j, ok)
    \/ \E j \in Tasks : TaskExcept(j)

Spec == Init /\ [][Next]_vars

\* Every thread that can take a step eventually takes one, and every call
\* to create_scraper and scrape eventually returns or raises.
MainStep ==
    \/ Validate
    \/ \E kind \in FailureKinds : \E m \in Handlers(kind) : DiscoverFails(kind, m)
    \/ \E body \in Bodies : DiscoverOk(body)
    \/ BuildNext
    \/ CreatePool
    \/ Submit
    \/ Wait
    \/ Return

WorkerStep ==
    \/ WorkerGet
    \/ WorkerWake
    \/ WorkerExit
    \/ \E j \in Tasks : TaskSetNamespace(j)
    \/ \E j \in Tasks : \E ok \in BOOLEAN : TaskCreate(j, ok)
    \/ \E j \in Tasks : \E ok \in BOOLEAN : TaskScrape(j, ok)
    \/ \E j \in Tasks : TaskExcept(j)

FairSpec == Spec /\ WF_vars(MainStep) /\ WF_vars(WorkerStep)

\* The config builder on its own
BuildSpec == BuildInit /\ [][BuildNext]_vars

\* ------------------------------------------------------------- properties
SignalsNamed(name) == { s \in BagToSet(signals) : s.name = name }

CountNamed(name) == BagCardinality([s \in SignalsNamed(name) |-> signals[s]])

Failed == { j \in 1..Len(futures) : ~IsNone(futures[j].error) }

CredentialsPresent ==
    \A c \in { instance.planetscale_organization, instance.ps_service_token_id,
               instance.ps_service_token_secret } : ~IsNone(c) /\ Val(c) # << >>

\* C1: with max_concurrent_requests = k >= 1 (5 when the option is absent),
\* the number of _scrape_single_target executions started and not finished
\* never exceeds k; the configs beyond k stay queued.
C1_ConcurrencyBound ==
    LET k == GetOr(instance.max_concurrent_requests, DefaultMaxWorkers)
    IN k >= 1 => Cardinality(InFlight) <= k

C1_Witness ==
    /\ instance.max_concurrent_requests # None
    /\ Len(scrape_configs) > Val(instance.max_concurrent_requests)
    /\ Cardinality(InFlight) = Val(instance.max_concurrent_requests)
    /\ Len(work_queue) > 0

\* C2: once any task's create_scraper or scrape has raised, every config of
\* the batch is still started and finished, each exactly once, and
\* scrape_planetscale_targets returns.
C2_FailureIsolation ==
    (Failed # { }) ~>
        (/\ pc = "returned"
         /\ Len(futures) = Len(scrape_configs)
         /\ \A j \in 1..Len(futures) :
               futures[j].state = "finished" /\ futures[j].runs = 1)

C2_Witness ==
    /\ pc = "returned"
    /\ Failed # { }
    /\ \E j \in 1..Len(futures) :
          /\ j \notin Failed
          /\ futures[j].state = "finished"
          /\ \E i \in Failed : i < j

\* C3: when scrape_planetscale_targets has returned, every built config has
\* been executed exactly once and nothing is in flight.
C3_ExactlyOnce ==
    pc = "returned" =>
        /\ Len(futures) = Len(scrape_configs)
        /\ \A j \in 1..Len(scrape_configs) :
              futures[j].state = "finished" /\ futures[j].runs = 1
        /\ InFlight = { }
        /\ Len(work_queue) = 0
        /\ polling = 0 /\ blocked = 0

C3_Witness ==
    /\ pc = "returned"
    /\ Len(scrape_configs) = MaxTargets
    /\ max_workers < Len(scrape_configs)

\* C4: with the three credentials present check raises nothing, whatever the
\* discovery outcome, the scrape outcomes and the concurrency option.
C4_OnlyConfigurationErrorEscapes ==
    /\ exc \in { "none", "ConfigurationError" }
    /\ CredentialsPresent => pc # "raised"

\* C5: a failed discovery request leaves exactly one api.can_connect signal,
\* CRITICAL, tagged planetscale_org:<org>, with a message (the timeout
\* message for a timeout), and the run returns with no config, no scrape and
\* no target.can_scrape signal.
C5_DiscoveryFailure ==
    response \in FailureKinds =>
        /\ pc = "returned"
        /\ exc = "none"
        /\ BagCardinality(signals) = 1
        /\ \A s \in BagToSet(signals) :
              /\ s.name = ApiCheck
              /\ s.status = "CRITICAL"
              /\ s.tags = SetToBag({ OrgTagPrefix \o Val(instance.planetscale_organization) })
              /\ ~IsNone(s.message)
              /\ (Val(s.message) = "Timeout connecting") <=> (response = "timeout")
        /\ scrape_configs = << >>
        /\ futures = << >>

C5_Witness == response = "timeout" /\ pc = "returned"

\* C6: a missing or empty organization, token id or token secret makes check
\* raise ConfigurationError with no request issued, no signal and no scrape.
C6_FailFast ==
    ~CredentialsPresent =>
        /\ net_calls = 0
        /\ response = "none"
        /\ signals = EmptyBag
        /\ futures = << >>
        /\ pc \in { "start", "raised" }
        /\ pc = "raised" => exc = "ConfigurationError"

C6_Witness ==
    /\ pc = "raised"
    /\ instance.planetscale_organization = Some(Org)
    /\ instance.ps_service_token_id = Some(Org)
    /\ instance.ps_service_token_secret = Some(<< >>)

\* C7 as stated: one api.can_connect signal per run with credentials, OK
\* exactly when the request succeeded and its body was decoded.
C7_OkIffDecoded ==
    (CredentialsPresent /\ response # "none") =>
        /\ CountNamed(ApiCheck) = 1
        /\ \A s \in SignalsNamed(ApiCheck) :
              (s.status = "OK") <=>
                  (response \notin { "timeout", "transport", "http", "decode" })

\* C7, amended: one api.can_connect signal per run with credentials, OK
\* exactly when the request succeeded, its body was decoded and the decoded
\* value has a length; the signal is there before any scrape starts and
\* whatever the scrapes do; an empty list gives one OK signal, no
\* target.can_scrape signal and no scrape.
C7_ApiSignal ==
    /\ response = "none" => CountNamed(ApiCheck) = 0
    /\ response # "none" =>
          /\ CountNamed(ApiCheck) = 1
          /\ \A s \in SignalsNamed(ApiCheck) :
                (s.status = "OK") <=> (response = "ok")
    /\ (CredentialsPresent /\ pc \in { "returned", "raised" }) =>
          CountNamed(ApiCheck) = 1
    /\ futures # << >> =>
          \E s \in SignalsNamed(ApiCheck) : s.status = "OK"
    /\ (response = "ok" /\ targets = << >> /\ pc = "returned") =>
          /\ BagCardinality(signals) = 1
          /\ futures = << >>

C7_Witness ==
    /\ pc = "returned"
    /\ response = "ok"
    /\ Failed # { }
    /\ \E s \in SignalsNamed(ApiCheck) : s.status = "OK"

\* C8: a task whose create_scraper or scrape raised has emitted a CRITICAL
\* target.can_scrape signal whose message is the error text and whose tags
\* contain the config's endpoint URL, and the task finishes normally.
C8_EndpointTagged ==
    \A j \in 1..Len(futures) :
        (j \in Failed /\ futures[j].state = "finished") =>
            \E s \in SignalsNamed(TargetCheck) :
                /\ s.status = "CRITICAL"
                /\ s.message = futures[j].error
                /\ BagIn(scrape_configs[j].openmetrics_endpoint, s.tags)

\* C9: the target.can_scrape signals are all CRITICAL and as many as the
\* tasks that failed: one from each failed task, none from the others.
C9_OneSignalPerFailure ==
    /\ \A s \in SignalsNamed(TargetCheck) : s.status = "CRITICAL"
    /\ CountNamed(TargetCheck) =
          Cardinality({ j \in 1..Len(futures) : futures[j].emitted = 1 })
    /\ \A j \in 1..Len(futures) :
          /\ futures[j].emitted <= 1
          /\ futures[j].state = "finished" =>
                futures[j].emitted = (IF j \in Failed THEN 1 ELSE 0)
    /\ pc = "returned" => CountNamed(TargetCheck) = Cardinality(Failed)

C9_Witness ==
    /\ pc = "returned"
    /\ Len(futures) = 2
    /\ Cardinality(Failed) = 1
    /\ CountNamed(TargetCheck) = 1

\* C10: a target whose 'targets' list is empty or missing gets no config, no
\* task and no signal, and the targets around it get theirs.
HasEndpoints(t) == t.isdict /\ ~IsNone(t.targets) /\ Len(Val(t.targets)) > 0

C10_SkipWithoutEndpoints ==
    /\ response = "ok" =>
          LET kept == SelectSeq(SubSeq(targets, 1, idx - 1), HasEndpoints)
          IN /\ Len(scrape_configs) = Len(kept)
             /\ \A i \in 1..Len(kept) :
                   scrape_configs[i] = BuildConfig(instance, kept[i])
    /\ Len(futures) <= Len(scrape_configs)
    /\ \A s \in SignalsNamed(TargetCheck) :
          \E j \in 1..Len(futures) : s.tags = scrape_configs[j].tags
    /\ (pc = "raised" /\ exc = "AttributeError") => ~targets[idx].isdict
    /\ (response = "ok" /\ pc \in { "shutdown", "returned" }) =>
          /\ idx = Len(targets) + 1
          /\ Len(futures) = Len(SelectSeq(targets, HasEndpoints))

C10_Witness ==
    /\ pc = "returned"
    /\ Len(futures) > 0
    /\ \E i, j \in 1..Len(targets) :
          /\ i < j
          /\ targets[i].isdict
          /\ ~HasEndpoints(targets[i])
          /\ HasEndpoints(targets[j])

\* C11: one discovery request, completed before any task is dispatched; the
\* configs are built one at a time in the order of the response, and the
\* last one is built before the first task is submitted.
C11_Ordering ==
    /\ [](/\ net_calls <= 1
          /\ (max_workers > 0 \/ futures # << >>) =>
                /\ net_calls = 1
                /\ response = "ok"
                /\ idx = Len(targets) + 1
          /\ response = "ok" =>
                LET kept == SelectSeq(SubSeq(targets, 1, idx - 1), HasEndpoints)
                IN scrape_configs = [i \in 1..Len(kept) |-> BuildConfig(instance, kept[i])])
    /\ [][scrape_configs' # scrape_configs =>
            /\ scrape_configs = SubSeq(scrape_configs', 1, Len(scrape_configs))
            /\ Len(scrape_configs') = Len(scrape_configs) + 1
            /\ idx' = idx + 1
            /\ futures = << >> /\ futures' = << >>]_vars

C11_Witness ==
    /\ pc = "returned"
    /\ Len(scrape_configs) = 2
    /\ scrape_configs[1] # scrape_configs[2]
    /\ AllDone

\* C12: no state is written by one task and read or written by another: no
\* worker has written the check-level field, and the field a task hands to
\* create_scraper was not written by another task.
C12_NoSharedState ==
    /\ ns_writer = 0
    /\ \A j \in 1..Len(futures) :
          futures[j].state = "create" => ns_writer \in { 0, j }

\* C13: building the configs leaves every key of the instance as it was, and
\* a tag discovered for one target is in no other target's config.
OwnLabelTags(t) ==
    { t.labels[i][1] \o << ":" >> \o t.labels[i][2] :
        i \in { n \in 1..Len(t.labels) :
                  ~(Len(t.labels[n][1]) >= 2 /\ t.labels[n][1][1] = "_"
                                             /\ t.labels[n][1][2] = "_") } }

InstanceTags == { GetOr(instance.tags, << >>)[i] : i \in 1..Len(GetOr(instance.tags, << >>)) }

C13_InstanceUntouched ==
    /\ [][instance' = instance]_vars
    /\ [](response = "ok" =>
            LET kept == SelectSeq(SubSeq(targets, 1, idx - 1), HasEndpoints)
            IN \A i, j \in 1..Len(scrape_configs) :
                  \A x \in OwnLabelTags(kept[i]) :
                      (x \notin OwnLabelTags(kept[j]) /\ x \notin InstanceTags) =>
                          ~BagIn(x, scrape_configs[j].tags))

C13_Witness ==
    /\ ~IsNone(instance.tags)
    /\ Len(scrape_configs) = 2
    /\ scrape_configs[1].tags # scrape_configs[2].tags
    /\ pc = "returned"

\* C17: when a task calls create_scraper, self.__NAMESPACE__ holds the
\* namespace of the task's own config, whichever task wrote it last.
C17_NamespaceAtCreate ==
    \A j \in 1..Len(futures) :
        futures[j].state = "create" => NAMESPACE = scrape_configs[j].namespace

C17_Witness ==
    \E j \in 1..Len(futures) :
        /\ futures[j].state = "create"
        /\ ns_writer # j
        /\ NAMESPACE = scrape_configs[j].namespace

\* C18: the target.can_scrape signals are, one for one, those of the failed
\* tasks, each with the tags of its own config: the instance's tags and the
\* non-reserved labels of its target.
ExpectedSignal(j) ==
    [ name |-> TargetCheck,
      status |-> "CRITICAL",
      message |-> futures[j].error,
      tags |-> SetToBag(InstanceTags
                        \cup OwnLabelTags(SelectSeq(targets, HasEndpoints)[j])) ]

C18_SignalTags ==
    LET emitters == { j \in 1..Len(futures) : futures[j].emitted > 0 }
    IN /\ \A s \in SignalsNamed(TargetCheck) :
             \E j \in emitters : s = ExpectedSignal(j)
       /\ \A j \in emitters :
             CopiesIn(ExpectedSignal(j), signals) =
                 Cardinality({ i \in emitters : ExpectedSignal(i) = ExpectedSignal(j) })

C18_Witness ==
    /\ pc = "returned"
    /\ Len(futures) = 2
    /\ Failed = { 1 }
    /\ scrape_configs[1].tags # scrape_configs[2].tags

\* The target each config was built from
SourceOf(i) == SelectSeq(SubSeq(targets, 1, idx - 1), HasEndpoints)[i]

HasPrefix(k, p) == Len(k) >= Len(p) /\ \A i \in 1..Len(p) : k[i] = p[i]

\* C14: a config's tags are the instance's tags and key:value of every label
\* whose key does not start with "__", each once and nothing else.
C14_TagSet ==
    \A i \in 1..Len(scrape_configs) :
        LET expected == InstanceTags \cup OwnLabelTags(SourceOf(i))
            got == scrape_configs[i].tags
        IN \A x \in expected \cup BagToSet(got) :
              CopiesIn(x, got) = (IF x \in expected THEN 1 ELSE 0)

C14_Witness ==
    /\ Len(scrape_configs) = 1
    /\ instance.tags = Some(BaseTags \o BaseTags)
    /\ \E m, n \in 1..Len(targets[1].labels) :
          /\ HasPrefix(targets[1].labels[m][1], ReservedPrefix)
          /\ ~HasPrefix(targets[1].labels[n][1], ReservedPrefix)

\* The query string of a URL, and its parts between the "&"
QueryOf(url) ==
    IF \E n \in 1..Len(url) : url[n] = "?"
    THEN SubSeq(url, 1 + CHOOSE n \in 1..Len(url) :
                            url[n] = "?" /\ \A m \in 1..(n - 1) : url[m] # "?",
                Len(url))
    ELSE << >>

Ampersands(q) == { n \in 1..Len(q) : q[n] = "&" }

Segments(q) ==
    { SubSeq(q, a, b) : << a, b >> \in
        { ab \in (1..(Len(q) + 1)) \X (0..Len(q)) :
            /\ ab[1] <= ab[2] + 1
            /\ ab[1] = 1 \/ ab[1] - 1 \in Ampersands(q)
            /\ ab[2] = Len(q) \/ ab[2] + 1 \in Ampersands(q)
            /\ \A n \in ab[1]..ab[2] : n \notin Ampersands(q) } }

ParamLabels(t) == { n \in 1..Len(t.labels) : HasPrefix(t.labels[n][1], ParamPrefix) }

\* key=value of a "__param_" label, the leading prefix taken off the key
StrippedPair(kv) ==
    QuotePlus(SubSeq(kv[1], Len(ParamPrefix) + 1, Len(kv[1]))) \o << "=" >>
        \o QuotePlus(kv[2])

\* C15: each "__param_" label puts (key without the leading prefix, value),
\* URL-encoded, into the query string; the query holds these stripped pairs
\* only, and one parameter for each such label.
C15_QueryParams ==
    \A i \in 1..Len(scrape_configs) :
        LET t == SourceOf(i)
            q == QueryOf(scrape_configs[i].openmetrics_endpoint)
        IN IF ParamLabels(t) = { }
           THEN q = << >>
           ELSE /\ Segments(q) = { StrippedPair(t.labels[n]) : n \in ParamLabels(t) }
                /\ Cardinality(Ampersands(q)) + 1 = Cardinality(ParamLabels(t))

\* The parts of the URL as C16 names them
SchemedAddress(t) ==
    LET first == Val(t.targets)[1]
    IN IF HasPrefix(first, HttpScheme) \/ HasPrefix(first, HttpsScheme)
       THEN first ELSE HttpsScheme \o first

TrimmedHost(t) ==
    LET a == SchemedAddress(t)
    IN SubSeq(a, 1, CHOOSE n \in 0..Len(a) :
                       /\ \A m \in (n + 1)..Len(a) : a[m] = "/"
                       /\ n = 0 \/ a[n] # "/")

PathLabel(t) ==
    IF \E n \in 1..Len(t.labels) : t.labels[n][1] = MetricsPathKey
    THEN t.labels[CHOOSE n \in 1..Len(t.labels) : t.labels[n][1] = MetricsPathKey][2]
    ELSE << "/", "m", "e", "t", "r", "i", "c", "s" >>

SlashedPath(t) ==
    IF Len(PathLabel(t)) > 0 /\ PathLabel(t)[1] = "/"
    THEN PathLabel(t) ELSE << "/" >> \o PathLabel(t)

UrlShape(t, url) ==
    LET hp == TrimmedHost(t) \o SlashedPath(t)
        rest == SubSeq(url, Len(hp) + 1, Len(url))
    IN /\ Len(url) >= Len(hp)
       /\ SubSeq(url, 1, Len(hp)) = hp
       /\ rest = << >> \/ (Len(rest) > 1 /\ rest[1] = "?")
       /\ rest = << >> <=> ParamLabels(t) = { }

OneSlash(t, url) ==
    LET h == Len(TrimmedHost(t))
    IN /\ h = 0 \/ url[h] # "/"
       /\ Len(url) > h /\ url[h + 1] = "/"
       /\ Len(url) > h + 1 => url[h + 2] # "/"

\* C16 as stated: the URL is the first address (https:// prepended when it
\* has no scheme, trailing slashes trimmed), the path (the label value or
\* /metrics, "/" prepended when missing) and "?query" when there is a query,
\* with exactly one "/" between host and path.
C16_UrlOneSlash ==
    \A i \in 1..Len(scrape_configs) :
        /\ UrlShape(SourceOf(i), scrape_configs[i].openmetrics_endpoint)
        /\ OneSlash(SourceOf(i), scrape_configs[i].openmetrics_endpoint)

\* C16, amended: the same construction, with exactly one "/" between host
\* and path unless the label value itself starts with "//".
C16_UrlShape ==
    \A i \in 1..Len(scrape_configs) :
        /\ UrlShape(SourceOf(i), scrape_configs[i].openmetrics_endpoint)
        /\ ~HasPrefix(PathLabel(SourceOf(i)), << "/", "/" >>) =>
              OneSlash(SourceOf(i), scrape_configs[i].openmetrics_endpoint)

C16_Witness ==
    /\ Len(scrape_configs) = 1
    /\ Val(targets[1].targets) = << << "b", "/" >>, << "z" >> >>
    /\ PathLabel(targets[1]) = << "s" >>
    /\ ParamLabels(targets[1]) # { }
    /\ scrape_configs[1].openmetrics_endpoint =
          HttpsScheme \o << "b", "/", "s", "?", "a", "=", "s" >>

====
